---- MODULE Spec2Model ----
(***************************************************************************)
(* Two programs of the repository:                                         *)
(*   - the broker service (broker-service/cmd/api/main.go): main and the   *)
(*     RabbitMQ connection loop connect();                                 *)
(*   - the benchmark harness (benchmark main.go): main, warmup, the three  *)
(*     benchmark drivers, calculateResult, printResult and printSummary.   *)
(* Each program has its own specifications (SpecBroker; SpecRun, SpecMain);*)
(* the variables of the program that is not running keep idle values.      *)
(***************************************************************************)
EXTENDS Integers, Sequences, FiniteSets, TLC

VARIABLES
    \* ---- broker service -------------------------------------------------
    brokerPc,     \* position of the broker process in main / connect
    counts,       \* connect: number of failed dials so far (var counts int64)
    backOff,      \* connect: current back-off, in seconds
    connection,   \* connect: var connection *amqp.Connection (NilConn or an id)
    dialErr,      \* connect: err of the latest amqp.Dial (Nil or an error)
    rabbitconn,   \* main: first value returned by connect()
    mainErr,      \* main: err
    grpcConn,     \* main: *grpc.ClientConn (Nil or "grpcConn")
    grpcClient,   \* main: logs.LogServiceClient (Nil or "grpcClient")
    app,          \* main: the Config value (NoConfig until built)
    exitStatus,   \* process exit status (Nil while running)
    closed,       \* connections closed by the deferred calls
    dials,        \* history: number of amqp.Dial calls made
    delays,       \* history: the sequence of time.Sleep durations, in seconds
    deferred,     \* main: stack of deferred calls
    listenCalls,  \* history: number of srv.ListenAndServe calls
    \* ---- benchmark harness: main ---------------------------------------
    benchPc,      \* position of the harness's main goroutine
    urlValid,     \* whether brokerURL + path parses (http.NewRequest succeeds)
    totalRequests,\* main's requests, the drivers' totalRequests
    concurrency,  \* main's concurrency, the drivers' concurrency
    run,          \* which driver runs: 1 HTTP, 2 RabbitMQ, 3 gRPC
    results,      \* the BenchmarkResults returned so far, in order
    out,          \* what printResult / printSummary have printed
    warmupCalls,  \* history: number of calls issued by warmup
    horizon,      \* how far the clock may advance during one run
    \* ---- benchmark harness: one driver run ------------------------------
    now,          \* the wall clock
    start,        \* start := time.Now()
    latencies,    \* the shared latency list
    mu,           \* sync.Mutex: NoWorker when free, else the holder
    wg,           \* sync.WaitGroup counter
    successes,    \* shared counter
    failures,     \* shared counter
    requestsPerGoroutine,
    i,            \* index of the spawn loop
    wpc,          \* position of each worker goroutine
    j,            \* each worker's loop index
    reqStart,     \* each worker's reqStart
    latency,      \* each worker's latency
    resp,         \* each worker's outcome of NewRequest / client.Do
    loaded,       \* each worker's copy of the counter and list it has read
    tally         \* history: calls and outcomes of this run, by class and worker

brokerVars == <<brokerPc, counts, backOff, connection, dialErr, rabbitconn,
                mainErr, grpcConn, grpcClient, app, exitStatus, closed, dials,
                delays, deferred, listenCalls>>

mainVars == <<benchPc, urlValid, totalRequests, concurrency, run, results,
              out, warmupCalls, horizon>>

runVars == <<now, start, latencies, mu, wg, successes, failures,
             requestsPerGoroutine, i, wpc, j, reqStart, latency, resp,
             loaded, tally>>

vars == <<brokerVars, mainVars, runVars>>

Nil == "nil"

\* the nil *amqp.Connection; live connections are numbered from 1
NilConn == 0

\* the zero Config: main has not built app yet
NoConfig == [Rabbit |-> NilConn, GRPCClient |-> Nil, GRPCConn |-> Nil,
             HTTPClient |-> Nil]

\* time.Second, the unit of the broker's clock
Second == 1

\* the retry cap of connect(): `if counts > 5`
MaxCounts == 5

----------------------------------------------------------------------------
(* connect()                                                               *)

\* variant: the attempt index counted from 0 (number of failures before the
\* one that has just happened)
BackOffFromZero(n) == ((n - 1) * (n - 1)) * Second

\* time.Duration(math.Pow(float64(counts), 2)) * time.Second
BackOffOf(n) == (n * n) * Second

\* the state on entry to connect(): var counts int64; backOff = 1s; connection nil
ConnectEntry ==
    /\ counts = 0
    /\ backOff = 1 * Second
    /\ connection = NilConn

\* variant: the successful branch lacks its break, so the loop goes on
DialNoBreak ==
    /\ brokerPc = "dial"
    /\ dials' = dials + 1
    /\ \E ok \in BOOLEAN :
          IF ok
          THEN /\ dialErr' = Nil
               /\ connection' = dials + 1
               /\ counts' = counts
               /\ brokerPc' = "checkCap"
          ELSE /\ dialErr' = "dialError"
               /\ connection' = connection
               /\ counts' = counts + 1
               /\ brokerPc' = "checkCap"
    /\ UNCHANGED <<backOff, rabbitconn, mainErr, grpcConn, grpcClient, app,
                   exitStatus, closed, delays, deferred, listenCalls>>
    /\ UNCHANGED <<mainVars, runVars>>

\* c, err := amqp.Dial(...) and the if/else that follows it
Dial ==
    /\ brokerPc = "dial"
    /\ dials' = dials + 1
    /\ \E ok \in BOOLEAN :
          IF ok
          THEN /\ dialErr' = Nil
               /\ connection' = dials + 1     \* the connection of this dial
               /\ counts' = counts
               /\ brokerPc' = "connectReturn" \* break; return connection, nil
          ELSE /\ dialErr' = "dialError"
               /\ connection' = connection
               /\ counts' = counts + 1
               /\ brokerPc' = "checkCap"
    /\ UNCHANGED <<backOff, rabbitconn, mainErr, grpcConn, grpcClient, app,
                   exitStatus, closed, delays, deferred, listenCalls>>
    /\ UNCHANGED <<mainVars, runVars>>

\* variant: the cap test written `counts >= 5`
CheckCapInclusive ==
    /\ brokerPc = "checkCap"
    /\ IF counts >= MaxCounts
       THEN /\ rabbitconn' = NilConn
            /\ mainErr' = dialErr
            /\ brokerPc' = "mainCheckErr"
            /\ backOff' = backOff
       ELSE /\ backOff' = BackOffOf(counts)
            /\ brokerPc' = "sleep"
            /\ UNCHANGED <<rabbitconn, mainErr>>
    /\ UNCHANGED <<counts, connection, dialErr, grpcConn, grpcClient, app,
                   exitStatus, closed, dials, delays, deferred, listenCalls>>
    /\ UNCHANGED <<mainVars, runVars>>

\* variant: the cap test written `counts > 6`
CheckCapLate ==
    /\ brokerPc = "checkCap"
    /\ IF counts > MaxCounts + 1
       THEN /\ rabbitconn' = NilConn
            /\ mainErr' = dialErr
            /\ brokerPc' = "mainCheckErr"
            /\ backOff' = backOff
       ELSE /\ backOff' = BackOffOf(counts)
            /\ brokerPc' = "sleep"
            /\ UNCHANGED <<rabbitconn, mainErr>>
    /\ UNCHANGED <<counts, connection, dialErr, grpcConn, grpcClient, app,
                   exitStatus, closed, dials, delays, deferred, listenCalls>>
    /\ UNCHANGED <<mainVars, runVars>>

\* if counts > 5 { return nil, err }; otherwise compute the back-off
CheckCap ==
    /\ brokerPc = "checkCap"
    /\ IF counts > MaxCounts
       THEN /\ rabbitconn' = NilConn
            /\ mainErr' = dialErr
            /\ brokerPc' = "mainCheckErr"
            /\ backOff' = backOff
       ELSE /\ backOff' = BackOffOf(counts)
            /\ brokerPc' = "sleep"
            /\ UNCHANGED <<rabbitconn, mainErr>>
    /\ UNCHANGED <<counts, connection, dialErr, grpcConn, grpcClient, app,
                   exitStatus, closed, dials, delays, deferred, listenCalls>>
    /\ UNCHANGED <<mainVars, runVars>>

\* time.Sleep(backOff); continue
Sleep ==
    /\ brokerPc = "sleep"
    /\ delays' = Append(delays, backOff)
    /\ brokerPc' = "dial"
    /\ UNCHANGED <<counts, backOff, connection, dialErr, rabbitconn, mainErr,
                   grpcConn, grpcClient, app, exitStatus, closed, dials,
                   deferred, listenCalls>>
    /\ UNCHANGED <<mainVars, runVars>>

\* return connection, nil
ConnectReturn ==
    /\ brokerPc = "connectReturn"
    /\ rabbitconn' = connection
    /\ mainErr' = Nil
    /\ brokerPc' = "mainCheckErr"
    /\ UNCHANGED <<counts, backOff, connection, dialErr, grpcConn, grpcClient,
                   app, exitStatus, closed, dials, delays, deferred, listenCalls>>
    /\ UNCHANGED <<mainVars, runVars>>

----------------------------------------------------------------------------
(* main() of the broker service                                            *)

\* variant: the error of connect() is logged but the process carries on
MainIgnoreErr ==
    /\ brokerPc = "mainCheckErr"
    /\ deferred' = <<"rabbitconn.Close">> \o deferred
    /\ brokerPc' = "grpcDial"
    /\ UNCHANGED <<counts, backOff, connection, dialErr, rabbitconn, mainErr,
                   grpcConn, grpcClient, app, closed, dials, delays,
                   exitStatus, listenCalls>>
    /\ UNCHANGED <<mainVars, runVars>>

\* if err != nil { log.Println(err); os.Exit(1) }; defer rabbitconn.Close()
MainCheckErr ==
    /\ brokerPc = "mainCheckErr"
    /\ IF mainErr # Nil
       THEN /\ exitStatus' = "1"
            /\ brokerPc' = "exited"
            /\ deferred' = deferred
       ELSE /\ deferred' = <<"rabbitconn.Close">> \o deferred
            /\ brokerPc' = "grpcDial"
            /\ exitStatus' = exitStatus
    /\ UNCHANGED <<counts, backOff, connection, dialErr, rabbitconn, mainErr,
                   grpcConn, grpcClient, app, closed, dials, delays, listenCalls>>
    /\ UNCHANGED <<mainVars, runVars>>

\* grpcConn, err := grpc.Dial(...); a failure is only logged; defer func(){...}
GrpcDial ==
    /\ brokerPc = "grpcDial"
    /\ \E ok \in BOOLEAN :
          IF ok
          THEN grpcConn' = "grpcConn" /\ mainErr' = Nil
          ELSE grpcConn' = Nil /\ mainErr' = "grpcError"
    /\ deferred' = <<"grpcConn.Close">> \o deferred
    /\ brokerPc' = "grpcClient"
    /\ UNCHANGED <<counts, backOff, connection, dialErr, rabbitconn,
                   grpcClient, app, exitStatus, closed, dials, delays, listenCalls>>
    /\ UNCHANGED <<mainVars, runVars>>

\* if grpcConn != nil { grpcClient = logs.NewLogServiceClient(grpcConn) }
NewGrpcClient ==
    /\ brokerPc = "grpcClient"
    /\ grpcClient' = IF grpcConn # Nil THEN "grpcClient" ELSE Nil
    /\ brokerPc' = "config"
    /\ UNCHANGED <<counts, backOff, connection, dialErr, rabbitconn, mainErr,
                   grpcConn, app, exitStatus, closed, dials, delays, deferred, listenCalls>>
    /\ UNCHANGED <<mainVars, runVars>>

\* httpClient := ...; app := Config{...}; srv := &http.Server{...}
BuildConfig ==
    /\ brokerPc = "config"
    /\ app' = [Rabbit |-> rabbitconn, GRPCClient |-> grpcClient,
               GRPCConn |-> grpcConn, HTTPClient |-> "httpClient"]
    /\ brokerPc' = "listen"
    /\ UNCHANGED <<counts, backOff, connection, dialErr, rabbitconn, mainErr,
                   grpcConn, grpcClient, exitStatus, closed, dials, delays,
                   deferred, listenCalls>>
    /\ UNCHANGED <<mainVars, runVars>>

\* err = srv.ListenAndServe(): either the listener is bound and the server
\* serves, or binding fails and the call returns its error at once
Listen ==
    /\ brokerPc = "listen"
    /\ \E bound \in BOOLEAN :
          IF bound
          THEN brokerPc' = "serving" /\ mainErr' = mainErr
          ELSE brokerPc' = "panic" /\ mainErr' = "listenError"
    /\ listenCalls' = listenCalls + 1
    /\ UNCHANGED <<counts, backOff, connection, dialErr, rabbitconn, grpcConn,
                   grpcClient, app, exitStatus, closed, dials, delays,
                   deferred>>
    /\ UNCHANGED <<mainVars, runVars>>

\* ListenAndServe returns while serving (it always returns a non-nil error)
ServeError ==
    /\ brokerPc = "serving"
    /\ mainErr' = "serveError"
    /\ brokerPc' = "panic"
    /\ UNCHANGED <<counts, backOff, connection, dialErr, rabbitconn, grpcConn,
                   grpcClient, app, exitStatus, closed, dials, delays,
                   deferred, listenCalls>>
    /\ UNCHANGED <<mainVars, runVars>>

\* log.Panic(err): the deferred calls run, last deferred first
RunDeferred ==
    /\ brokerPc = "panic"
    /\ deferred # <<>>
    /\ LET d == Head(deferred) IN
          closed' = IF d = "rabbitconn.Close" THEN closed \cup {"rabbitconn"}
                    ELSE IF grpcConn # Nil THEN closed \cup {"grpcConn"}
                    ELSE closed
    /\ deferred' = Tail(deferred)
    /\ UNCHANGED <<brokerPc, counts, backOff, connection, dialErr, rabbitconn,
                   mainErr, grpcConn, grpcClient, app, exitStatus, dials,
                   delays, listenCalls>>
    /\ UNCHANGED <<mainVars, runVars>>

\* the panic ends the process with status 2 once the deferred calls have run
PanicExit ==
    /\ brokerPc = "panic"
    /\ deferred = <<>>
    /\ exitStatus' = "2"
    /\ brokerPc' = "exited"
    /\ UNCHANGED <<counts, backOff, connection, dialErr, rabbitconn, mainErr,
                   grpcConn, grpcClient, app, closed, dials, delays, deferred, listenCalls>>
    /\ UNCHANGED <<mainVars, runVars>>

\* the broker variables while the harness is the program modelled
BrokerIdle ==
    /\ brokerPc = "off"
    /\ ConnectEntry
    /\ dialErr = Nil
    /\ rabbitconn = NilConn
    /\ mainErr = Nil
    /\ grpcConn = Nil
    /\ grpcClient = Nil
    /\ app = NoConfig
    /\ exitStatus = Nil
    /\ closed = {}
    /\ dials = 0
    /\ delays = <<>>
    /\ deferred = <<>>
    /\ listenCalls = 0

----------------------------------------------------------------------------
(* The benchmark harness: constants and pure functions                     *)

\* largest requests and concurrency arguments given to a driver on its own
MaxRequests == 4
MaxConcurrency == 2

\* largest requests and concurrency arguments given to the whole program
MainMaxRequests == 2
MainMaxConcurrency == 1

\* the clock advances at most this far during one run of a driver on its
\* own, and during one run of the whole program
MaxTime == 2
MainMaxTime == 1

\* the same three bounds for the runs checked under fairness
FairMaxRequests == 2
FairMaxConcurrency == 2
FairMaxTime == 1

\* the worker goroutines that a run can start
Max2(a, b) == IF a > b THEN a ELSE b
Workers == 1..Max2(MaxConcurrency, Max2(MainMaxConcurrency, FairMaxConcurrency))

\* the zero sync.Mutex: no goroutine holds it
NoWorker == 0

\* http.StatusAccepted
StatusAccepted == 202

\* resp == nil
NoStatus == 0

\* a worker's (resp, err) before it has made a request
NoResp == [stage |-> "none", err |-> FALSE, status |-> NoStatus]

\* a worker that is not in the critical section has read nothing
NoLoad == [n |-> 0, lats |-> <<>>]

\* http.NewRequest returned an error
RequestError == [stage |-> "request", err |-> TRUE, status |-> NoStatus]

\* what client.Do can return: a response with a status (202 Accepted, or
\* another one such as 200 or 500) and no error, or an error (transport
\* failure or the 5 s timeout) with no response
Outcomes ==
    {[stage |-> "do", err |-> FALSE, status |-> st] : st \in {200, 202, 500}}
    \cup {[stage |-> "do", err |-> TRUE, status |-> NoStatus]}

\* variant: every 2xx status counts as a success
IsFailureNon2xx(r) ==
    r.err \/ r.status = NoStatus \/ r.status < 200 \/ r.status > 299

\* variant: the status compared with http.StatusOK
IsFailureNotOK(r) == r.err \/ r.status = NoStatus \/ r.status # 200

\* err != nil || resp == nil || resp.StatusCode != http.StatusAccepted
IsFailure(r) == r.err \/ r.status = NoStatus \/ r.status # StatusAccepted

Abs(n) == IF n < 0 THEN -n ELSE n

\* variant: the quotient rounded away from zero, so that a remainder is
\* handed out to the workers
GoDivRoundUp(a, b) ==
    IF (a < 0) = (b < 0) THEN (Abs(a) + Abs(b) - 1) \div Abs(b)
    ELSE -((Abs(a) + Abs(b) - 1) \div Abs(b))

\* Go's integer division: the quotient truncated toward zero (b # 0)
GoDiv(a, b) ==
    IF (a < 0) = (b < 0) THEN Abs(a) \div Abs(b) ELSE -(Abs(a) \div Abs(b))

RECURSIVE GCD(_, _)
GCD(a, b) == IF b = 0 THEN a ELSE GCD(b, a % b)

\* the float64 quotient n / d of two non-negative integers, kept exact as a
\* fraction in lowest terms; x/0 is +Inf (1/0) and 0/0 is NaN (0/0)
FloatDiv(n, d) ==
    IF d = 0 THEN [num |-> IF n = 0 THEN 0 ELSE 1, den |-> 0]
    ELSE [num |-> n \div GCD(n, d), den |-> d \div GCD(n, d)]

\* the zero float64
ZeroFloat == [num |-> 0, den |-> 1]

MethodName(r) == <<"HTTP", "RabbitMQ", "gRPC">>[r]

EntryPoint(r) == <<"/log-http", "/log-rabbit", "/log-grpc">>[r]

\* the loop of calculateResult over latencies[k..], carrying sum, min and max
RECURSIVE LatencyLoop(_, _, _, _, _)
LatencyLoop(lats, k, sum, min, max) ==
    IF k > Len(lats) THEN [sum |-> sum, min |-> min, max |-> max]
    ELSE LET lat == lats[k] IN
         LatencyLoop(lats, k + 1, sum + lat,
                     IF lat < min THEN lat ELSE min,
                     IF lat > max THEN lat ELSE max)

\* variant: throughput taken over the summed latencies, not the wall clock
calculateResultSummed(method, totalTime, lats, succ, fail, total) ==
    IF Len(lats) = 0
    THEN [Method |-> method, TotalTime |-> totalTime, Requests |-> total,
          Successes |-> succ, Failures |-> fail, AvgLatency |-> 0,
          MinLatency |-> 0, MaxLatency |-> 0, Throughput |-> ZeroFloat]
    ELSE LET acc == LatencyLoop(lats, 1, 0, lats[1], lats[1]) IN
         [Method |-> method, TotalTime |-> totalTime, Requests |-> total,
          Successes |-> succ, Failures |-> fail,
          AvgLatency |-> acc.sum \div Len(lats),
          MinLatency |-> acc.min, MaxLatency |-> acc.max,
          Throughput |-> FloatDiv(succ, acc.sum)]

\* variant: min declared like sum (var min time.Duration), so it starts at 0
calculateResultMinFromZero(method, totalTime, lats, succ, fail, total) ==
    IF Len(lats) = 0
    THEN [Method |-> method, TotalTime |-> totalTime, Requests |-> total,
          Successes |-> succ, Failures |-> fail, AvgLatency |-> 0,
          MinLatency |-> 0, MaxLatency |-> 0, Throughput |-> ZeroFloat]
    ELSE LET acc == LatencyLoop(lats, 1, 0, 0, lats[1]) IN
         [Method |-> method, TotalTime |-> totalTime, Requests |-> total,
          Successes |-> succ, Failures |-> fail,
          AvgLatency |-> acc.sum \div Len(lats),
          MinLatency |-> acc.min, MaxLatency |-> acc.max,
          Throughput |-> FloatDiv(succ, totalTime)]

\* calculateResult: the zero-valued statistics when there is no sample
calculateResult(method, totalTime, lats, succ, fail, total) ==
    IF Len(lats) = 0
    THEN [Method |-> method, TotalTime |-> totalTime, Requests |-> total,
          Successes |-> succ, Failures |-> fail, AvgLatency |-> 0,
          MinLatency |-> 0, MaxLatency |-> 0, Throughput |-> ZeroFloat]
    ELSE LET acc == LatencyLoop(lats, 1, 0, lats[1], lats[1]) IN
         [Method |-> method, TotalTime |-> totalTime, Requests |-> total,
          Successes |-> succ, Failures |-> fail,
          AvgLatency |-> acc.sum \div Len(lats),
          MinLatency |-> acc.min, MaxLatency |-> acc.max,
          Throughput |-> FloatDiv(succ, totalTime)]

\* a printed value: a number (as a fraction), or the text "N/A"
Shown(n, d) == [na |-> FALSE, num |-> n, den |-> d]
NotApplicable == [na |-> TRUE, num |-> 0, den |-> 0]

\* printResult: the lines it prints for a result
printResult(result) ==
    <<[label |-> "Total Time", method |-> result.Method,
       value |-> Shown(result.TotalTime, 1)],
      [label |-> "Requests", method |-> result.Method,
       value |-> Shown(result.Requests, 1)],
      [label |-> "Successes", method |-> result.Method,
       value |-> Shown(result.Successes, 1)],
      [label |-> "Failures", method |-> result.Method,
       value |-> Shown(result.Failures, 1)]>>
    \o (IF result.Successes > 0
        THEN <<[label |-> "Avg Latency", method |-> result.Method,
                value |-> Shown(result.AvgLatency, 1)],
               [label |-> "Min Latency", method |-> result.Method,
                value |-> Shown(result.MinLatency, 1)],
               [label |-> "Max Latency", method |-> result.Method,
                value |-> Shown(result.MaxLatency, 1)],
               [label |-> "Throughput", method |-> result.Method,
                value |-> Shown(result.Throughput.num,
                                result.Throughput.den)]>>
        ELSE <<>>)

\* variant: the row printed with its numbers whatever the success count
printSummaryNumbers(result) ==
    <<[label |-> "Summary Avg Latency", method |-> result.Method,
       value |-> Shown(result.AvgLatency, 1)],
      [label |-> "Summary Throughput", method |-> result.Method,
       value |-> Shown(result.Throughput.num, result.Throughput.den)],
      [label |-> "Summary Success", method |-> result.Method,
       value |-> Shown(result.Successes, 1)],
      [label |-> "Summary Failure", method |-> result.Method,
       value |-> Shown(result.Failures, 1)]>>

\* printSummary: the row it prints for a result, column by column
printSummary(result) ==
    IF result.Successes > 0
    THEN <<[label |-> "Summary Avg Latency", method |-> result.Method,
            value |-> Shown(result.AvgLatency, 1)],
           [label |-> "Summary Throughput", method |-> result.Method,
            value |-> Shown(result.Throughput.num, result.Throughput.den)],
           [label |-> "Summary Success", method |-> result.Method,
            value |-> Shown(result.Successes, 1)],
           [label |-> "Summary Failure", method |-> result.Method,
            value |-> Shown(result.Failures, 1)]>>
    ELSE <<[label |-> "Summary Avg Latency", method |-> result.Method,
            value |-> NotApplicable],
           [label |-> "Summary Throughput", method |-> result.Method,
            value |-> NotApplicable],
           [label |-> "Summary Success", method |-> result.Method,
            value |-> Shown(result.Successes, 1)],
           [label |-> "Summary Failure", method |-> result.Method,
            value |-> Shown(result.Failures, 1)]>>

----------------------------------------------------------------------------
(* One driver run: benchmarkHTTP, benchmarkRabbitMQ, benchmarkGRPC.  The    *)
(* three drivers are the same code up to the entry point and the method    *)
(* name, which EntryPoint(run) and MethodName(run) select.                 *)

NoTally == [issued |-> 0, accepted |-> 0, rejected |-> 0, reqErrors |-> 0,
            paths |-> {}, calls |-> [w \in Workers |-> 0]]

\* start, latencies, mu, wg, successes, failures, requestsPerGoroutine: a
\* negative capacity panics in make, a zero concurrency in the division
BenchStart ==
    /\ benchPc = "bench"
    /\ start' = now
    /\ IF totalRequests < 0 \/ concurrency = 0
       THEN /\ benchPc' = "panicked"
            /\ UNCHANGED <<latencies, mu, wg, successes, failures,
                           requestsPerGoroutine, i, wpc, j, reqStart, latency,
                           resp, loaded, tally>>
       ELSE /\ benchPc' = "spawn"
            /\ latencies' = <<>>
            /\ mu' = NoWorker
            /\ wg' = 0
            /\ successes' = 0
            /\ failures' = 0
            /\ requestsPerGoroutine' = GoDiv(totalRequests, concurrency)
            /\ i' = 0
            /\ wpc' = [w \in Workers |-> "idle"]
            /\ j' = [w \in Workers |-> 0]
            /\ reqStart' = [w \in Workers |-> 0]
            /\ latency' = [w \in Workers |-> 0]
            /\ resp' = [w \in Workers |-> NoResp]
            /\ loaded' = [w \in Workers |-> NoLoad]
            /\ tally' = NoTally
    /\ UNCHANGED <<now, urlValid, totalRequests, concurrency, run, results,
                   out, warmupCalls, horizon, brokerVars>>

\* variant: the spawn loop written `i <= concurrency`
SpawnOneMore ==
    /\ benchPc = "spawn"
    /\ IF i <= concurrency
       THEN /\ wg' = wg + 1
            /\ wpc' = [w \in Workers |-> IF w = i + 1 THEN "loop" ELSE wpc[w]]
            /\ i' = i + 1
            /\ benchPc' = benchPc
       ELSE /\ benchPc' = "wait"
            /\ UNCHANGED <<wg, wpc, i>>
    /\ UNCHANGED <<now, start, latencies, mu, successes, failures,
                   requestsPerGoroutine, j, reqStart, latency, resp,
                   loaded, tally, urlValid, totalRequests, concurrency, run,
                   results, out, warmupCalls, horizon, brokerVars>>

\* for i := 0; i < concurrency; i++ { wg.Add(1); go func() {...}() }
Spawn ==
    /\ benchPc = "spawn"
    /\ IF i < concurrency
       THEN /\ wg' = wg + 1
            /\ wpc' = [wpc EXCEPT ![i + 1] = "loop"]
            /\ i' = i + 1
            /\ benchPc' = benchPc
       ELSE /\ benchPc' = "wait"
            /\ UNCHANGED <<wg, wpc, i>>
    /\ UNCHANGED <<now, start, latencies, mu, successes, failures,
                   requestsPerGoroutine, j, reqStart, latency, resp,
                   loaded, tally, urlValid, totalRequests, concurrency, run,
                   results, out, warmupCalls, horizon, brokerVars>>

\* variant: the lock is taken before the call and kept while it is in flight
BeginLocked(w) ==
    /\ wpc[w] = "loop"
    /\ j[w] < requestsPerGoroutine
    /\ mu = NoWorker
    /\ mu' = w
    /\ reqStart' = [reqStart EXCEPT ![w] = now]
    /\ IF urlValid
       THEN /\ wpc' = [wpc EXCEPT ![w] = "call"]
            /\ resp' = resp
            /\ tally' = [tally EXCEPT !.issued = @ + 1,
                                      !.paths = @ \cup {EntryPoint(run)},
                                      !.calls[w] = @ + 1]
       ELSE /\ wpc' = [wpc EXCEPT ![w] = "update"]
            /\ resp' = [resp EXCEPT ![w] = RequestError]
            /\ tally' = [tally EXCEPT !.reqErrors = @ + 1]
    /\ UNCHANGED <<now, start, latencies, wg, successes, failures,
                   requestsPerGoroutine, i, j, latency, loaded, mainVars,
                   brokerVars>>

\* variant: the loop tests its condition after the body, so the body runs
\* once even when requestsPerGoroutine is 0
BeginAtLeastOnce(w) ==
    /\ wpc[w] = "loop"
    /\ (j[w] < requestsPerGoroutine \/ j[w] = 0)
    /\ reqStart' = [reqStart EXCEPT ![w] = now]
    /\ IF urlValid
       THEN /\ wpc' = [wpc EXCEPT ![w] = "call"]
            /\ resp' = resp
            /\ tally' = [tally EXCEPT !.issued = @ + 1,
                                      !.paths = @ \cup {EntryPoint(run)},
                                      !.calls[w] = @ + 1]
       ELSE /\ wpc' = [wpc EXCEPT ![w] = "lock"]
            /\ resp' = [resp EXCEPT ![w] = RequestError]
            /\ tally' = [tally EXCEPT !.reqErrors = @ + 1]
    /\ UNCHANGED <<now, start, latencies, mu, wg, successes, failures,
                   requestsPerGoroutine, i, j, latency, loaded, mainVars,
                   brokerVars>>

\* one iteration up to the call: reqStart := time.Now(); http.NewRequest;
\* on its error the worker goes for the lock, otherwise client.Do is issued
Begin(w) ==
    /\ wpc[w] = "loop"
    /\ j[w] < requestsPerGoroutine
    /\ reqStart' = [reqStart EXCEPT ![w] = now]
    /\ IF urlValid
       THEN /\ wpc' = [wpc EXCEPT ![w] = "call"]
            /\ resp' = resp
            /\ tally' = [tally EXCEPT !.issued = @ + 1,
                                      !.paths = @ \cup {EntryPoint(run)},
                                      !.calls[w] = @ + 1]
       ELSE /\ wpc' = [wpc EXCEPT ![w] = "lock"]
            /\ resp' = [resp EXCEPT ![w] = RequestError]
            /\ tally' = [tally EXCEPT !.reqErrors = @ + 1]
    /\ UNCHANGED <<now, start, latencies, mu, wg, successes, failures,
                   requestsPerGoroutine, i, j, latency, loaded, mainVars,
                   brokerVars>>

\* resp, err := client.Do(req); latency := time.Since(reqStart)
CallReturn(w) ==
    /\ wpc[w] = "call"
    /\ \E o \in Outcomes :
          /\ resp' = [resp EXCEPT ![w] = o]
          /\ tally' = IF ~o.err /\ o.status = 202
                      THEN [tally EXCEPT !.accepted = @ + 1]
                      ELSE [tally EXCEPT !.rejected = @ + 1]
    /\ latency' = [latency EXCEPT ![w] = now - reqStart[w]]
    /\ reqStart' = [reqStart EXCEPT ![w] = 0]      \* not read again
    /\ wpc' = [wpc EXCEPT ![w] = "lock"]
    /\ UNCHANGED <<now, start, latencies, mu, wg, successes, failures,
                   requestsPerGoroutine, i, j, loaded, mainVars,
                   brokerVars>>

\* what the critical section reads of the shared collector: the failures
\* counter on the failure branch, the successes counter and the latency
\* list on the success branch
LoadOf(w) ==
    IF resp[w].stage = "request" \/ IsFailure(resp[w])
    THEN [n |-> failures, lats |-> <<>>]
    ELSE [n |-> successes, lats |-> latencies]

\* variant: the worker enters the critical section without the mutex
LockNoWait(w) ==
    /\ wpc[w] = "lock"
    /\ mu' = w
    /\ loaded' = [loaded EXCEPT ![w] = LoadOf(w)]
    /\ wpc' = [wpc EXCEPT ![w] = "update"]
    /\ UNCHANGED <<now, start, latencies, wg, successes, failures,
                   requestsPerGoroutine, i, j, reqStart, latency, resp,
                   tally, mainVars, brokerVars>>

\* mu.Lock() and the read that opens the critical section: failures++,
\* successes++ and append each read the shared value before they write it
Lock(w) ==
    /\ wpc[w] = "lock"
    /\ mu = NoWorker
    /\ mu' = w
    /\ loaded' = [loaded EXCEPT ![w] = LoadOf(w)]
    /\ wpc' = [wpc EXCEPT ![w] = "update"]
    /\ UNCHANGED <<now, start, latencies, wg, successes, failures,
                   requestsPerGoroutine, i, j, reqStart, latency, resp,
                   tally, mainVars, brokerVars>>

\* variant: a failed call ends the worker's loop
UpdateBreakOnFailure(w) ==
    /\ wpc[w] = "update"
    /\ IF resp[w].stage = "request" \/ IsFailure(resp[w])
       THEN /\ failures' = loaded[w].n + 1
            /\ j' = [j EXCEPT ![w] = requestsPerGoroutine]
            /\ UNCHANGED <<successes, latencies>>
       ELSE /\ successes' = loaded[w].n + 1
            /\ latencies' = Append(loaded[w].lats, latency[w])
            /\ failures' = failures
            /\ j' = [j EXCEPT ![w] = @ + 1]
    /\ mu' = NoWorker
    /\ wpc' = [wpc EXCEPT ![w] = "loop"]
    /\ reqStart' = [reqStart EXCEPT ![w] = 0]
    /\ latency' = [latency EXCEPT ![w] = 0]
    /\ resp' = [resp EXCEPT ![w] = NoResp]
    /\ loaded' = [loaded EXCEPT ![w] = NoLoad]
    /\ UNCHANGED <<now, start, wg, requestsPerGoroutine, i, tally, mainVars,
                   brokerVars>>

\* variant: a latency sample is kept for a failed call as well
UpdateSampleFailures(w) ==
    /\ wpc[w] = "update"
    /\ IF resp[w].stage = "request" \/ IsFailure(resp[w])
       THEN /\ failures' = loaded[w].n + 1
            /\ latencies' = Append(latencies, latency[w])
            /\ successes' = successes
       ELSE /\ successes' = loaded[w].n + 1
            /\ latencies' = Append(loaded[w].lats, latency[w])
            /\ failures' = failures
    /\ mu' = NoWorker
    /\ j' = [j EXCEPT ![w] = @ + 1]
    /\ wpc' = [wpc EXCEPT ![w] = "loop"]
    /\ reqStart' = [reqStart EXCEPT ![w] = 0]
    /\ latency' = [latency EXCEPT ![w] = 0]
    /\ resp' = [resp EXCEPT ![w] = NoResp]
    /\ loaded' = [loaded EXCEPT ![w] = NoLoad]
    /\ UNCHANGED <<now, start, wg, requestsPerGoroutine, i, tally,
                   mainVars, brokerVars>>

\* the write that ends the critical section: failures++ after a NewRequest
\* error, otherwise the if/else on the outcome, each storing the value read
\* plus one (the list read plus the sample); mu.Unlock(); j++
Update(w) ==
    /\ wpc[w] = "update"
    /\ IF resp[w].stage = "request" \/ IsFailure(resp[w])
       THEN /\ failures' = loaded[w].n + 1
            /\ UNCHANGED <<successes, latencies>>
       ELSE /\ successes' = loaded[w].n + 1
            /\ latencies' = Append(loaded[w].lats, latency[w])
            /\ failures' = failures
    /\ mu' = NoWorker
    /\ j' = [j EXCEPT ![w] = @ + 1]
    /\ wpc' = [wpc EXCEPT ![w] = "loop"]
    /\ reqStart' = [reqStart EXCEPT ![w] = 0]
    /\ latency' = [latency EXCEPT ![w] = 0]
    /\ resp' = [resp EXCEPT ![w] = NoResp]
    /\ loaded' = [loaded EXCEPT ![w] = NoLoad]
    /\ UNCHANGED <<now, start, wg, requestsPerGoroutine, i, tally,
                   mainVars, brokerVars>>

\* j < requestsPerGoroutine is false: the goroutine ends, defer wg.Done()
WorkerExit(w) ==
    /\ wpc[w] = "loop"
    /\ j[w] >= requestsPerGoroutine
    /\ wg' = wg - 1
    /\ wpc' = [wpc EXCEPT ![w] = "done"]
    /\ UNCHANGED <<now, start, latencies, mu, successes, failures,
                   requestsPerGoroutine, i, j, reqStart, latency, resp,
                   loaded, tally, mainVars, brokerVars>>

\* the wall clock advances while a run is under way
Tick ==
    /\ benchPc \in {"spawn", "wait"}
    /\ now - start < horizon
    /\ now' = now + 1
    /\ UNCHANGED <<start, latencies, mu, wg, successes, failures,
                   requestsPerGoroutine, i, wpc, j, reqStart, latency, resp,
                   loaded, tally, mainVars, brokerVars>>

\* variant: the result is computed without waiting for the workers
BenchReturnNoWait ==
    /\ benchPc = "wait"
    /\ results' = Append(results,
                         calculateResult(MethodName(run), now - start,
                                         latencies, successes, failures,
                                         totalRequests))
    /\ benchPc' = "print"
    /\ UNCHANGED <<urlValid, totalRequests, concurrency, run, out,
                   warmupCalls, horizon, runVars, brokerVars>>

\* wg.Wait(); totalTime := time.Since(start); return calculateResult(...)
BenchReturn ==
    /\ benchPc = "wait"
    /\ wg = 0
    /\ results' = Append(results,
                         calculateResult(MethodName(run), now - start,
                                         latencies, successes, failures,
                                         totalRequests))
    /\ benchPc' = "print"
    /\ UNCHANGED <<urlValid, totalRequests, concurrency, run, out,
                   warmupCalls, horizon, runVars, brokerVars>>

----------------------------------------------------------------------------
(* main() of the harness                                                   *)

\* warmup(brokerURL): req, _ := http.NewRequest(...) leaves req nil when the
\* URL does not parse and req.Header.Set then panics; otherwise one call is
\* made and its outcome dropped
Warmup ==
    /\ benchPc = "warmup"
    /\ IF urlValid
       THEN /\ warmupCalls' = warmupCalls + 1
            /\ benchPc' = "bench"
       ELSE /\ benchPc' = "panicked"
            /\ warmupCalls' = warmupCalls
    /\ UNCHANGED <<urlValid, totalRequests, concurrency, run, results, out,
                   horizon, runVars, brokerVars>>

\* printResult(httpResult) / (rabbitResult) / (grpcResult), then on to the
\* next driver or to the summary
PrintResult ==
    /\ benchPc = "print"
    /\ out' = out \o printResult(results[run])
    /\ IF run < 3
       THEN run' = run + 1 /\ benchPc' = "bench"
       ELSE run' = run /\ benchPc' = "summary"
    /\ UNCHANGED <<urlValid, totalRequests, concurrency, results,
                   warmupCalls, horizon, runVars, brokerVars>>

\* printSummary(httpResult); printSummary(rabbitResult);
\* printSummary(grpcResult); main returns
Summary ==
    /\ benchPc = "summary"
    /\ out' = out \o printSummary(results[1]) \o printSummary(results[2])
                  \o printSummary(results[3])
    /\ benchPc' = "done"
    /\ UNCHANGED <<urlValid, totalRequests, concurrency, run, results,
                   warmupCalls, horizon, runVars, brokerVars>>

\* the harness variables while the broker service is the program modelled
BenchIdle ==
    /\ benchPc = "off"
    /\ urlValid = TRUE
    /\ totalRequests = 0
    /\ concurrency = 0
    /\ run = 1
    /\ results = <<>>
    /\ out = <<>>
    /\ warmupCalls = 0
    /\ horizon = 0
    /\ now = 0
    /\ start = 0
    /\ latencies = <<>>
    /\ mu = NoWorker
    /\ wg = 0
    /\ successes = 0
    /\ failures = 0
    /\ requestsPerGoroutine = 0
    /\ i = 0
    /\ wpc = [w \in Workers |-> "idle"]
    /\ j = [w \in Workers |-> 0]
    /\ reqStart = [w \in Workers |-> 0]
    /\ latency = [w \in Workers |-> 0]
    /\ resp = [w \in Workers |-> NoResp]
    /\ loaded = [w \in Workers |-> NoLoad]
    /\ tally = NoTally

\* the locals of a driver before it is entered
RunEntry ==
    /\ now = 0
    /\ start = 0
    /\ latencies = <<>>
    /\ mu = NoWorker
    /\ wg = 0
    /\ successes = 0
    /\ failures = 0
    /\ requestsPerGoroutine = 0
    /\ i = 0
    /\ wpc = [w \in Workers |-> "idle"]
    /\ j = [w \in Workers |-> 0]
    /\ reqStart = [w \in Workers |-> 0]
    /\ latency = [w \in Workers |-> 0]
    /\ resp = [w \in Workers |-> NoResp]
    /\ loaded = [w \in Workers |-> NoLoad]
    /\ tally = NoTally

\* a driver called on its own with any arguments
InitRun ==
    /\ BrokerIdle
    /\ benchPc = "bench"
    /\ run \in 1..3
    /\ urlValid \in BOOLEAN
    /\ totalRequests \in (-1)..MaxRequests
    /\ concurrency \in (-1)..MaxConcurrency
    /\ results = <<>>
    /\ out = <<>>
    /\ warmupCalls = 0
    /\ horizon = MaxTime
    /\ RunEntry

WorkerStep(w) ==
    \/ Begin(w)
    \/ CallReturn(w)
    \/ Lock(w)
    \/ Update(w)
    \/ WorkerExit(w)

NextRun ==
    \/ BenchStart
    \/ Spawn
    \/ \E w \in Workers : WorkerStep(w)
    \/ Tick
    \/ BenchReturn

SpecRun == InitRun /\ [][NextRun]_vars

\* the harness program: brokerURL, requests and concurrency from os.Args
InitMain ==
    /\ BrokerIdle
    /\ benchPc = "warmup"
    /\ run = 1
    /\ urlValid \in BOOLEAN
    /\ totalRequests \in (-1)..MainMaxRequests
    /\ concurrency \in (-1)..MainMaxConcurrency
    /\ results = <<>>
    /\ out = <<>>
    /\ warmupCalls = 0
    /\ horizon = MainMaxTime
    /\ RunEntry

NextMain ==
    \/ Warmup
    \/ NextRun
    \/ PrintResult
    \/ Summary

SpecMain == InitMain /\ [][NextMain]_vars

\* a driver called on its own, for the properties of whole behaviours
InitRunFair ==
    /\ BrokerIdle
    /\ benchPc = "bench"
    /\ run \in 1..3
    /\ urlValid \in BOOLEAN
    /\ totalRequests \in (-1)..FairMaxRequests
    /\ concurrency \in (-1)..FairMaxConcurrency
    /\ results = <<>>
    /\ out = <<>>
    /\ warmupCalls = 0
    /\ horizon = FairMaxTime
    /\ RunEntry

\* under the scheduling the Go runtime gives: every runnable goroutine
\* eventually runs, a blocked Lock or Wait returns once it can, and every
\* call returns (the client has a 5 s timeout)
SpecRunFair ==
    /\ InitRunFair
    /\ [][NextRun]_vars
    /\ WF_vars(BenchStart)
    /\ WF_vars(Spawn)
    /\ WF_vars(BenchReturn)
    /\ \A w \in Workers : WF_vars(WorkerStep(w))

----------------------------------------------------------------------------
(* Properties of the benchmark harness                                     *)

\* the driver that was entered last has returned its BenchmarkResult
Returned == benchPc = "print"

\* the BenchmarkResult returned last
LastResult == results[Len(results)]

\* c divides n: n is a whole multiple of c
Divides(c, n) == \E k \in (-Abs(n))..Abs(n) : k * c = n

\* floor(a / b), the quotient rounded toward minus infinity (b # 0)
Floor(a, b) ==
    CHOOSE q \in (-Abs(a) - 1)..(Abs(a) + 1) :
        IF b > 0 THEN q * b <= a /\ a < (q + 1) * b
        ELSE q * b >= a /\ a > (q + 1) * b

RECURSIVE SumSeq(_)
SumSeq(q) == IF q = <<>> THEN 0 ELSE Head(q) + SumSeq(Tail(q))

\* the workers that the spawn loop starts
Started == {w \in Workers : w <= concurrency}

\* C4 as stated: in every returned BenchmarkResult Successes + Failures is
\* totalRequests when concurrency divides totalRequests, and is
\* concurrency * floor(totalRequests / concurrency) otherwise.
C4_CountsMatchTotal ==
    Returned =>
        IF Divides(concurrency, totalRequests)
        THEN LastResult.Successes + LastResult.Failures = totalRequests
        ELSE LastResult.Successes + LastResult.Failures
                 = concurrency * Floor(totalRequests, concurrency)

\* C4 amended: for concurrency >= 1, Successes + Failures is
\* concurrency * floor(totalRequests / concurrency) in every returned
\* result, which is totalRequests exactly when concurrency divides
\* totalRequests and less otherwise; for a negative concurrency no worker
\* starts and Successes + Failures is 0; Requests is always totalRequests.
C4_CountsMatchTotalPositive ==
    Returned =>
        LET counted == LastResult.Successes + LastResult.Failures IN
        /\ LastResult.Requests = totalRequests
        /\ totalRequests >= 0
        /\ concurrency # 0
        /\ (concurrency >= 1 =>
               /\ counted = concurrency * Floor(totalRequests, concurrency)
               /\ (Divides(concurrency, totalRequests) <=>
                      counted = totalRequests)
               /\ counted <= totalRequests)
        /\ (concurrency < 0 => counted = 0)

C4_Witness ==
    /\ Returned
    /\ totalRequests = 3
    /\ concurrency = 2
    /\ LastResult.Successes = 1
    /\ LastResult.Failures = 1

\* C5: when calls were made and every one was answered 202 Accepted, a run
\* whose totalRequests is a multiple of concurrency reports
\* Successes = totalRequests and Failures = 0, whichever of the three entry
\* points it drives.
C5_AllAcceptedAllSucceed ==
    Returned /\ tally.issued > 0 /\ tally.rejected = 0
             /\ Divides(concurrency, totalRequests) =>
        /\ LastResult.Successes = totalRequests
        /\ LastResult.Failures = 0
        /\ LastResult.Requests = totalRequests
        /\ LastResult.Method = MethodName(run)
        /\ tally.paths = {EntryPoint(run)}
        /\ tally.accepted = totalRequests

C5_Witness ==
    /\ Returned
    /\ run = 2
    /\ totalRequests = 4
    /\ concurrency = 2
    /\ tally.paths = {"/log-rabbit"}
    /\ LastResult.Successes = 4
    /\ LastResult.Failures = 0

\* C6: in every returned result TotalTime is the clock span from start to
\* the return after the barrier, and Throughput * TotalTime = Successes
\* (Throughput is Successes / TotalTime); the summed latencies play no part.
C6_ThroughputOverWallClock ==
    Returned =>
        /\ LastResult.TotalTime = now - start
        /\ \A w \in Started : wpc[w] = "done"
        /\ LastResult.Throughput.num * LastResult.TotalTime
               = LastResult.Successes * LastResult.Throughput.den
        /\ (LastResult.TotalTime > 0 =>
               /\ LastResult.Throughput.den > 0
               /\ LastResult.Throughput
                      = FloatDiv(LastResult.Successes, now - start))
        /\ \A k \in 1..Len(latencies) : latencies[k] <= LastResult.TotalTime

\* two calls overlap: each took 1, the run took 1, and the throughput is 2,
\* not Successes / (sum of latencies) = 1
C6_Witness ==
    /\ Returned
    /\ latencies = <<1, 1>>
    /\ LastResult.TotalTime = 1
    /\ LastResult.Successes = 2
    /\ LastResult.Throughput = [num |-> 2, den |-> 1]
    /\ LastResult.Throughput # FloatDiv(LastResult.Successes, SumSeq(latencies))

LatencyLabels == {"Avg Latency", "Min Latency", "Max Latency"}

\* the lines printed so far for the result r
LinesOf(r) == {out[l] : l \in {l \in 1..Len(out) : out[l].method = r.Method}}

\* C7 as stated: a result with Successes = 0 carries the "not applicable"
\* marker, never 0, as its average, minimum and maximum latency, and both
\* printResult and printSummary print the marker for the three of them.
C7_MarkerEverywhere ==
    \A k \in 1..Len(results) :
        results[k].Successes = 0 =>
            /\ results[k].AvgLatency # 0
            /\ results[k].MinLatency # 0
            /\ results[k].MaxLatency # 0
            /\ (k < run \/ benchPc \in {"summary", "done"} =>
                   \A lab \in LatencyLabels :
                       \E ln \in LinesOf(results[k]) :
                           ln.label = lab /\ ln.value = NotApplicable)
            /\ (benchPc = "done" =>
                   \A lab \in LatencyLabels :
                       \E ln \in LinesOf(results[k]) :
                           ln.label = "Summary " \o lab
                           /\ ln.value = NotApplicable)

\* C7 amended: for a result with Successes = 0 no printed line shows a
\* number as a latency or a throughput: printSummary prints the marker N/A in
\* its Avg Latency and Throughput columns (it has no minimum or maximum
\* column), printResult prints no latency or throughput line at all, and the
\* BenchmarkResult itself holds 0 as AvgLatency, MinLatency, MaxLatency and
\* Throughput.
C7_NoNumberWithoutSuccess ==
    \A k \in 1..Len(results) :
        results[k].Successes = 0 =>
            /\ results[k].AvgLatency = 0
            /\ results[k].MinLatency = 0
            /\ results[k].MaxLatency = 0
            /\ results[k].Throughput = ZeroFloat
            /\ \A ln \in LinesOf(results[k]) :
                  /\ ln.label \notin LatencyLabels \cup {"Throughput"}
                  /\ (ln.label \in {"Summary Avg Latency",
                                    "Summary Throughput"} =>
                         ln.value = NotApplicable)
            /\ (benchPc = "done" =>
                   \A lab \in {"Summary Avg Latency", "Summary Throughput"} :
                       \E ln \in LinesOf(results[k]) :
                           ln.label = lab /\ ln.value = NotApplicable)

C7_Witness ==
    /\ benchPc = "done"
    /\ results[1].Successes > 0
    /\ results[2].Successes = 0
    /\ results[2].Failures = 2

Accepted202 == [stage |-> "do", err |-> FALSE, status |-> 202]

\* C8: a worker that leaves its critical section holding anything but a 202
\* response (a NewRequest error, an error or timeout of Do, which comes with
\* no response, or another status) has added 1 to failures and nothing to
\* successes or latencies; holding a 202 response it has added 1 to successes
\* and its latency to latencies; so the counters always agree with the
\* outcomes that occurred.
C8_OnlyAcceptedSucceeds ==
    /\ [][\A w \in Workers :
             wpc[w] = "update" /\ wpc'[w] # "update" =>
                 IF resp[w] = Accepted202
                 THEN /\ successes' = successes + 1
                      /\ latencies' = Append(latencies, latency[w])
                      /\ failures' = failures
                 ELSE /\ failures' = failures + 1
                      /\ successes' = successes
                      /\ latencies' = latencies]_vars
    /\ [](benchPc \in {"spawn", "wait", "print"} =>
             /\ successes <= tally.accepted
             /\ failures <= tally.rejected + tally.reqErrors
             /\ Len(latencies) = successes)
    /\ [](Returned =>
             /\ LastResult.Successes = tally.accepted
             /\ LastResult.Failures = tally.rejected + tally.reqErrors)

C8_Witness ==
    /\ Returned
    /\ tally.accepted = 2
    /\ tally.rejected = 2
    /\ LastResult.Successes = 2
    /\ LastResult.Failures = 2
    /\ Len(latencies) = 2

\* C9: a run that has computed its per-worker count always returns a
\* result, whatever the outcomes of its calls, and by then every started
\* worker has gone through all its requestsPerGoroutine iterations, each of
\* which made one call (or failed to build its request).
C9_RunAlwaysCompletes ==
    /\ [](benchPc = "spawn" => <>Returned)
    /\ [](Returned =>
             /\ \A w \in Started :
                    wpc[w] = "done" /\ j[w] = Max2(requestsPerGoroutine, 0)
             /\ tally.issued + tally.reqErrors
                    = Cardinality(Started) * Max2(requestsPerGoroutine, 0)
             /\ LastResult.Successes + LastResult.Failures
                    = tally.issued + tally.reqErrors)

\* every call of a two-worker run failed and the run returned all the same
C9_Witness ==
    /\ Returned
    /\ concurrency = 2
    /\ totalRequests = 2
    /\ urlValid
    /\ LastResult.Failures = 2
    /\ LastResult.Successes = 0

\* C10: the result is computed only when every started worker has finished
\* all its iterations and released the lock; it is computed from the final
\* counters and latency list, and nothing changes them afterwards.
C10_Barrier ==
    /\ [](Returned =>
             /\ \A w \in Started :
                    wpc[w] = "done" /\ j[w] >= requestsPerGoroutine
             /\ \A w \in Workers \ Started : wpc[w] = "idle"
             /\ wg = 0
             /\ mu = NoWorker
             /\ LastResult = calculateResult(MethodName(run), now - start,
                                             latencies, successes, failures,
                                             totalRequests))
    /\ [][Returned =>
             /\ successes' = successes
             /\ failures' = failures
             /\ latencies' = latencies]_vars

C10_Witness ==
    /\ Returned
    /\ concurrency = 2
    /\ totalRequests = 4
    /\ LastResult.Successes = 3
    /\ LastResult.Failures = 1
    /\ LastResult.TotalTime = 2

\* C11: the mutex is never held across a call: its holder is in the critical
\* section, never issuing or waiting on a call; it is taken only by a worker
\* whose call has returned or whose request could not be built, and it is
\* free of a worker that is at the head of its loop.
C11_LockNotHeldAcrossCall ==
    /\ [](\A w \in Workers :
              /\ (mu = w => wpc[w] = "update")
              /\ (wpc[w] \in {"idle", "loop", "call", "lock", "done"}
                      => mu # w))
    /\ [][\A w \in Workers :
              mu # w /\ mu' = w =>
                  /\ wpc[w] = "lock"
                  /\ resp[w] # NoResp
                  /\ (resp[w].stage = "do" \/ resp[w] = RequestError)]_vars

\* the calls of two workers are in flight together, after the first worker
\* has been through the critical section once
C11_Witness ==
    /\ wpc[1] = "call"
    /\ wpc[2] = "call"
    /\ j[1] = 1
    /\ mu = NoWorker

\* the sum of f over the set S of workers
RECURSIVE SumOver(_, _)
SumOver(f, S) ==
    IF S = {} THEN 0
    ELSE LET w == CHOOSE x \in S : TRUE IN f[w] + SumOver(f, S \ {w})

\* the workers inside the critical section
InCritical == {w \in Workers : wpc[w] = "update"}

\* C12: every change of successes, failures or the latency list is made by
\* the holder of the mutex, inside the critical section; at most one worker
\* is in the critical section at a time; and no update is lost: the two
\* counters always add up to the iterations that the workers have completed,
\* and after the barrier to every iteration that was executed.
C12_MutexNoLostUpdate ==
    /\ [](/\ Cardinality(InCritical) <= 1
          /\ (mu = NoWorker <=> InCritical = {})
          /\ (mu # NoWorker => InCritical = {mu}))
    /\ [][(successes' # successes \/ failures' # failures
              \/ latencies' # latencies) =>
              /\ mu # NoWorker
              /\ wpc[mu] = "update"
              /\ j'[mu] = j[mu] + 1
              /\ \A w \in Workers \ {mu} : j'[w] = j[w]
              /\ successes' + failures' = successes + failures + 1]_vars
    /\ [](benchPc \in {"spawn", "wait", "print"} =>
              successes + failures = SumOver(j, Workers))
    /\ [](Returned =>
              /\ successes + failures = tally.issued + tally.reqErrors
              /\ LastResult.Successes + LastResult.Failures
                     = SumOver(j, Workers))

\* worker 1 is in the critical section while worker 2 waits for the mutex,
\* after each of them has updated the collector once
C12_Witness ==
    /\ mu = 1
    /\ wpc[1] = "update"
    /\ wpc[2] = "lock"
    /\ j[1] = 1
    /\ j[2] = 1
    /\ successes = 1
    /\ failures = 1

\* C13: whenever the mutex is free the latency list has exactly one entry
\* per counted success; leaving the critical section after a failed call
\* changes the failures counter only, and after a successful one adds the
\* call's latency to the list; so a returned result was computed by the
\* empty-list branch of calculateResult exactly when its Successes is 0.
C13_SamplesOnlyForSuccesses ==
    /\ [](benchPc \in {"spawn", "wait", "print"} /\ mu = NoWorker =>
              Len(latencies) = successes)
    /\ [][\A w \in Workers :
              wpc[w] = "update" /\ wpc'[w] # "update" =>
                  IF resp[w].err \/ resp[w].status # StatusAccepted
                  THEN /\ failures' = failures + 1
                       /\ successes' = successes
                       /\ latencies' = latencies
                  ELSE /\ successes' = successes + 1
                       /\ failures' = failures
                       /\ latencies' = Append(latencies, latency[w])]_vars
    /\ [](Returned =>
              /\ (Len(latencies) = 0 <=> LastResult.Successes = 0)
              /\ Len(latencies) = LastResult.Successes
              /\ LastResult.Successes = tally.accepted)

\* one call of three succeeded: one sample, two failures
C13_Witness ==
    /\ Returned
    /\ mu = NoWorker
    /\ concurrency = 1
    /\ totalRequests = 3
    /\ LastResult.Successes = 1
    /\ LastResult.Failures = 2
    /\ latencies = <<1>>
    /\ tally.rejected = 2

\* the samples of a list as a set, and how often a value occurs in it
Samples(q) == {q[k] : k \in 1..Len(q)}
Occurrences(q, v) == Cardinality({k \in 1..Len(q) : q[k] = v})

\* the sum of the samples, from the values and their multiplicities alone
RECURSIVE WeightedSum(_, _)
WeightedSum(q, S) ==
    IF S = {} THEN 0
    ELSE LET v == CHOOSE x \in S : TRUE IN
         v * Occurrences(q, v) + WeightedSum(q, S \ {v})

\* C14: a result computed from a non-empty latency list has MinLatency the
\* smallest sample, MaxLatency the largest, and AvgLatency the sum of the
\* samples divided by their number, truncated; these depend on the samples
\* and their multiplicities only, not on their order, and
\* MinLatency <= AvgLatency <= MaxLatency.
C14_MinAvgMax ==
    Returned /\ Len(latencies) > 0 =>
        LET r == LastResult IN
        /\ r.MinLatency \in Samples(latencies)
        /\ r.MaxLatency \in Samples(latencies)
        /\ \A v \in Samples(latencies) :
               r.MinLatency <= v /\ v <= r.MaxLatency
        /\ r.AvgLatency * Len(latencies)
               <= WeightedSum(latencies, Samples(latencies))
        /\ WeightedSum(latencies, Samples(latencies))
               < (r.AvgLatency + 1) * Len(latencies)
        /\ r.MinLatency <= r.AvgLatency
        /\ r.AvgLatency <= r.MaxLatency

\* three samples appended as 2, 0, 2: the average 4/3 is truncated to 1
C14_Witness ==
    /\ Returned
    /\ latencies = <<2, 0, 2>>
    /\ LastResult.MinLatency = 0
    /\ LastResult.AvgLatency = 1
    /\ LastResult.MaxLatency = 2

\* C15: the harness issues exactly one warm-up call: never more than one,
\* and one has been issued and has completed once main is past its warm-up
\* phase, so before the timer of any run starts; the call's outcome is in no
\* counter and no latency list of a run.
C15_OneWarmupBeforeTimers ==
    /\ warmupCalls <= 1
    /\ (benchPc # "warmup" => warmupCalls = 1)
    /\ (benchPc \in {"spawn", "wait", "print"} =>
           /\ successes + failures = SumOver(j, Workers)
           /\ Len(latencies) <= successes)

\* the workers whose call is in flight
InFlight == {w \in Workers : wpc[w] = "call"}

\* the workers that have been started
Running == {w \in Workers : wpc[w] # "idle"}

\* C17 as stated: a run starts exactly `concurrency` workers, each issues
\* exactly floor(totalRequests / concurrency) calls, and at most
\* `concurrency` calls are in flight at any time.
C17_WorkersAndCalls ==
    /\ (benchPc \in {"wait", "print"} => Cardinality(Running) = concurrency)
    /\ (Returned =>
           \A w \in Running :
               tally.calls[w] = Floor(totalRequests, concurrency))
    /\ (benchPc \in {"spawn", "wait", "print"} =>
           Cardinality(InFlight) <= concurrency)

\* C17 amended: a run with concurrency >= 1 starts exactly `concurrency`
\* workers and a run with a negative concurrency none; each worker executes
\* exactly floor(totalRequests / concurrency) iterations and issues one
\* call in each iteration whose request could be built, none in the others,
\* which are counted as failures; nothing is retried; the remainder is given
\* to no worker; and at most `concurrency` calls are in flight.  A run with
\* concurrency = 0 or a negative totalRequests panics before it starts a
\* worker.
C17_WorkersAndIterations ==
    /\ (benchPc = "panicked" =>
           Running = {} /\ (urlValid => totalRequests < 0 \/ concurrency = 0))
    /\ (benchPc \in {"spawn", "wait", "print"} =>
           totalRequests >= 0 /\ concurrency # 0)
    /\ benchPc \in {"spawn", "wait", "print"} =>
        /\ Cardinality(InFlight) <= Max2(concurrency, 0)
        /\ Running \subseteq Started
        /\ \A w \in Workers :
               /\ j[w] <= Max2(requestsPerGoroutine, 0)
               /\ tally.calls[w]
                      = IF urlValid
                        THEN j[w] + (IF wpc[w] \in {"call", "lock", "update"}
                                     THEN 1 ELSE 0)
                        ELSE 0
        /\ tally.issued = SumOver(tally.calls, Workers)
        /\ (benchPc \in {"wait", "print"} =>
               /\ Running = Started
               /\ Cardinality(Running) = Max2(concurrency, 0))
        /\ (Returned /\ concurrency >= 1 =>
               /\ \A w \in Running :
                      /\ j[w] = Floor(totalRequests, concurrency)
                      /\ tally.calls[w]
                             = IF urlValid
                               THEN Floor(totalRequests, concurrency)
                               ELSE 0
               /\ tally.issued + tally.reqErrors
                      = totalRequests - (totalRequests % concurrency))
        /\ (Returned /\ concurrency < 0 => tally.issued + tally.reqErrors = 0)

\* two workers of a run of 3 requests have each made their single call,
\* one failed: the third request was given to neither
C17_Witness ==
    /\ Returned
    /\ totalRequests = 3
    /\ concurrency = 2
    /\ tally.calls[1] = 1
    /\ tally.calls[2] = 1
    /\ tally.rejected = 1
    /\ tally.issued = 2

\* C18: whatever integers the command line gives for requests and
\* concurrency (0 and negative values included), with a broker URL that
\* parses, no run of the harness panics: each driver computes its per-worker
\* iteration count and returns a result, and main goes on to the summary.
C18_AllIntegersTerminate ==
    /\ (urlValid => benchPc # "panicked")
    /\ (benchPc = "done" => Len(results) = 3)

\* C20: a run with 1 <= totalRequests < concurrency issues no call: its
\* per-worker count is 0, no worker starts an iteration, and the returned
\* result has Successes = 0, Failures = 0, zero latency statistics and zero
\* throughput, with Requests equal to totalRequests all the same.
C20_MoreWorkersThanRequests ==
    benchPc \in {"spawn", "wait", "print"}
        /\ totalRequests >= 1 /\ concurrency > totalRequests =>
        /\ requestsPerGoroutine = 0
        /\ InFlight = {}
        /\ \A w \in Workers : j[w] = 0 /\ wpc[w] \in {"idle", "loop", "done"}
        /\ tally.issued = 0
        /\ tally.reqErrors = 0
        /\ successes = 0 /\ failures = 0 /\ latencies = <<>>
        /\ (Returned =>
               /\ LastResult.Successes = 0
               /\ LastResult.Failures = 0
               /\ LastResult.AvgLatency = 0
               /\ LastResult.MinLatency = 0
               /\ LastResult.MaxLatency = 0
               /\ LastResult.Throughput = ZeroFloat
               /\ LastResult.Requests = totalRequests
               /\ LastResult.Requests # LastResult.Successes
                                           + LastResult.Failures)

\* two workers for one request: both have ended without an iteration, and
\* the result reports the one request that was asked for
C20_Witness ==
    /\ Returned
    /\ totalRequests = 1
    /\ concurrency = 2
    /\ wpc[1] = "done"
    /\ wpc[2] = "done"
    /\ LastResult.Requests = 1
    /\ LastResult.Successes + LastResult.Failures = 0
    /\ LastResult.TotalTime = 1

----------------------------------------------------------------------------
(* The broker service as a program                                         *)

InitBroker ==
    /\ brokerPc = "dial"
    /\ ConnectEntry
    /\ dialErr = Nil
    /\ rabbitconn = NilConn
    /\ mainErr = Nil
    /\ grpcConn = Nil
    /\ grpcClient = Nil
    /\ app = NoConfig
    /\ exitStatus = Nil
    /\ closed = {}
    /\ dials = 0
    /\ delays = <<>>
    /\ deferred = <<>>
    /\ listenCalls = 0
    /\ BenchIdle

NextBroker ==
    \/ Dial
    \/ CheckCap
    \/ Sleep
    \/ ConnectReturn
    \/ MainCheckErr
    \/ GrpcDial
    \/ NewGrpcClient
    \/ BuildConfig
    \/ Listen
    \/ ServeError
    \/ RunDeferred
    \/ PanicExit

SpecBroker == InitBroker /\ [][NextBroker]_vars

\* the broker under the scheduling it runs with: the process is never
\* suspended for ever, and amqp.Dial, time.Sleep and grpc.Dial return
SpecBrokerFair == SpecBroker /\ WF_vars(NextBroker)

----------------------------------------------------------------------------
(* Properties of the broker service                                        *)

IsPrefix(s, t) == Len(s) <= Len(t) /\ \A k \in 1..Len(s) : s[k] = t[k]

\* connect() has returned to main
ConnectReturned == brokerPc \notin {"dial", "checkCap", "sleep", "connectReturn"}

\* connect() has returned (nil, err)
ConnectFailed == ConnectReturned /\ rabbitconn = NilConn

\* every dial made so far has failed
AllDialsFailed == counts = dials

\* C1 as stated: the waits between consecutive dial attempts are 0, 1, 4, 9,
\* 16, 25 seconds when every dial fails (the first retry immediate), and a
\* prefix of that sequence when a dial succeeds earlier.
C1_DelaysFromZero ==
    /\ IsPrefix(delays, <<0, 1, 4, 9, 16, 25>>)
    /\ (ConnectFailed => delays = <<0, 1, 4, 9, 16, 25>>)

\* C1 amended: the wait after the k-th failed dial (k = 1..5) is k*k seconds,
\* so a run in which every dial fails sleeps exactly 1, 4, 9, 16, 25 seconds
\* between its six dials, and a run that succeeds earlier sleeps a prefix of
\* that sequence; one sleep separates each two consecutive dials.
C1_DelaysFromOne ==
    /\ IsPrefix(delays, <<1, 4, 9, 16, 25>>)
    /\ (ConnectFailed => delays = <<1, 4, 9, 16, 25>>)
    /\ (brokerPc = "dial" => Len(delays) = dials)
    /\ (brokerPc # "dial" /\ dials > 0 => Len(delays) = dials - 1)

C1_Witness ==
    /\ brokerPc = "mainCheckErr"
    /\ ConnectFailed
    /\ Len(delays) = 5

\* C2: when every dial fails, connect() makes exactly 6 dials, returns a nil
\* connection with a non-nil error, and no dial is made after it returned; no
\* run makes more than 6 dials.
C2_SixDialsThenError ==
    /\ [](dials <= 6)
    /\ [](ConnectReturned /\ AllDialsFailed =>
             /\ dials = 6
             /\ rabbitconn = NilConn
             /\ (brokerPc = "mainCheckErr" => mainErr # Nil)
             /\ app = NoConfig)
    /\ [](~ConnectReturned /\ AllDialsFailed => rabbitconn = NilConn)
    /\ [][ConnectReturned => dials' = dials]_vars

C2_Witness ==
    /\ brokerPc = "exited"
    /\ AllDialsFailed
    /\ dials = 6
    /\ exitStatus = "1"

\* C3: the listen step is reached, and the handler configuration built, only
\* after a successful dial returned a live connection; when connect() returns
\* an error the process exits with status 1 and never builds the
\* configuration or listens.
C3_NoServeWithoutConnection ==
    /\ (brokerPc \in {"listen", "serving"} \/ app # NoConfig \/ listenCalls > 0 =>
           /\ rabbitconn # NilConn
           /\ rabbitconn = connection
           /\ dials = counts + 1
           /\ app # NoConfig
           /\ app.Rabbit = rabbitconn)
    /\ (ConnectFailed =>
           /\ brokerPc \in {"mainCheckErr", "exited"}
           /\ app = NoConfig
           /\ listenCalls = 0
           /\ grpcConn = Nil
           /\ (brokerPc = "exited" => exitStatus = "1"))
    /\ (exitStatus = "1" => ConnectFailed)

C3_Witness ==
    /\ brokerPc = "serving"
    /\ counts = 2
    /\ listenCalls = 1

\* connect() has returned (connection, nil) to main, which has not yet
\* reused err
ReturnedConnected ==
    brokerPc = "mainCheckErr" /\ rabbitconn # NilConn /\ mainErr = Nil

\* connect() has returned (nil, err) to main
ReturnedFailed ==
    brokerPc = "mainCheckErr" /\ rabbitconn = NilConn /\ mainErr # Nil

\* C16: connect() ends, and in exactly one of two outcomes: Connected
\* (a connection, nil error) or Failed (nil connection, an error).  It is
\* Connected exactly when one of at most 6 dials succeeded, and then with
\* the connection of that dial, the first that succeeded; it is Failed
\* exactly when 6 dials failed.  After a successful dial there is no other
\* dial and no back-off.
C16_TwoTerminalOutcomes ==
    /\ <>ConnectReturned
    /\ [](brokerPc = "mainCheckErr" =>
              /\ (ReturnedConnected \/ ReturnedFailed)
              /\ ~(ReturnedConnected /\ ReturnedFailed)
              /\ dials <= 6
              /\ (ReturnedConnected <=> counts < dials)
              /\ (ReturnedConnected =>
                      rabbitconn = dials /\ dials = counts + 1)
              /\ (ReturnedFailed <=> counts = 6 /\ dials = 6))
    /\ [][connection # NilConn =>
              /\ dials' = dials
              /\ delays' = delays
              /\ counts' = counts
              /\ backOff' = backOff
              /\ connection' = connection]_vars
    /\ [][ConnectReturned => rabbitconn' = rabbitconn]_vars

\* the third dial succeeded after two failures and two sleeps
C16_Witness ==
    /\ ReturnedConnected
    /\ rabbitconn = 3
    /\ counts = 2
    /\ delays = <<1, 4>>

\* C19: connect() sleeps only between a failed dial and the next dial: not
\* before the first dial, not after a successful dial, and not after the
\* sixth failed dial, whose error is returned at once; so a run has at most
\* 5 sleeps and none is longer than 25 seconds.
C19_SleepsOnlyBetweenDials ==
    /\ [](/\ Len(delays) <= 5
          /\ \A k \in 1..Len(delays) : delays[k] <= 25 * Second
          /\ (dials = 0 => delays = <<>>)
          /\ (brokerPc = "dial" => Len(delays) = dials)
          /\ (brokerPc # "dial" /\ dials > 0 => Len(delays) = dials - 1)
          /\ (ConnectFailed => dials = 6 /\ Len(delays) = 5))
    /\ [][delays' # delays =>
              /\ dialErr # Nil
              /\ connection = NilConn
              /\ counts = dials
              /\ counts \in 1..5
              /\ Len(delays') = dials
              /\ brokerPc' = "dial"]_vars
    /\ [][dials' # dials /\ dials > 0 => Len(delays) = dials]_vars

\* five sleeps, the last of 25 seconds, and then the sixth dial succeeds
C19_Witness ==
    /\ ReturnedConnected
    /\ rabbitconn = 6
    /\ Len(delays) = 5
    /\ delays[5] = 25 * Second

====
